---------------------------- MODULE Spec2Model ----------------------------
(***************************************************************************)
(* A model of src/ble/sender.py (class DisplaySender): the frame builders  *)
(* for static (PNG) and animated (GIF) payloads, the MTU fragmentation of  *)
(* a frame, the notification (ack) callback, and the send operations with  *)
(* their awaits as the interleaving points of the asyncio event loop.      *)
(*                                                                         *)
(* Bytes are the integers 0..255 and a byte string is a sequence of them.  *)
(* A 32-bit unsigned value is kept as its four little-endian bytes.        *)
(***************************************************************************)
EXTENDS Integers, Sequences, FiniteSets, TLC

\* ------------------------------------------------------------------------
\* Program constants
\* ------------------------------------------------------------------------

IMAGE_CHUNK_SIZE == 4096

DEFAULT_MTU == 20

\* ------------------------------------------------------------------------
\* Bounds of the model
\* ------------------------------------------------------------------------

\* Payload contents are PayloadBytes(n, seed) for seed in 0..MaxSeed.
MaxSeed == 1

\* The longest payload of a send fills MaxFrames frames.
MaxFrames == 2

\* API calls made on the session in one behaviour.
MaxCalls == 2

\* Fragment writes followed within one call: a longer transmission is
\* followed up to this write and no further.
MaxWrites == 20

\* The levels given to set_brightness run from -MaxLevel to MaxLevel.
MaxLevel == 300

\* ------------------------------------------------------------------------
\* Python built-ins used by the code
\* ------------------------------------------------------------------------

Min(a, b) == IF a < b THEN a ELSE b

Max(a, b) == IF a > b THEN a ELSE b

\* s[lo:hi] for 0 <= lo <= hi: the bytes at 0-based offsets lo..hi-1 that exist.
Slice(s, lo, hi) == SubSeq(s, lo + 1, Min(hi, Len(s)))

\* A loop that runs its body once even for an empty range.
Range0AtLeastOnce(stop, step) ==
    [k \in 1..Max(1, (stop + step - 1) \div step) |-> (k - 1) * step]

\* list(range(0, stop, step)) as a sequence.
Range0(stop, step) ==
    [k \in 1..((stop + step - 1) \div step) |-> (k - 1) * step]

\* The n little-endian bytes of a non-negative integer v < 256^n.
LEBytes(v, n) == [k \in 1..n |-> (v \div (256 ^ (k - 1))) % 256]

\* The value of a little-endian byte string (used to read header fields).
RECURSIVE LEValue(_)
LEValue(bs) == IF bs = <<>> THEN 0 ELSE bs[1] + 256 * LEValue(Tail(bs))

\* struct.error, raised by struct.pack when the value is out of range.
StructError == <<"struct.error">>

\* struct.pack(">h", v): the two bytes in the other order.
StructPack_hBigEndian(v) ==
    IF v < -32768 \/ v > 32767 THEN StructError
    ELSE LET w == IF v < 0 THEN v + 65536 ELSE v IN <<w \div 256, w % 256>>

\* struct.pack("<h", v): signed 16 bit, two's complement, little-endian.
StructPack_h(v) ==
    IF v < -32768 \/ v > 32767 THEN StructError
    ELSE LEBytes(IF v < 0 THEN v + 65536 ELSE v, 2)

\* struct.pack("<i", v): signed 32 bit, little-endian (v >= 0 in this code).
StructPack_i(v) ==
    IF v < 0 \/ v > 2147483647 THEN StructError
    ELSE LEBytes(v, 4)

\* ------------------------------------------------------------------------
\* zlib.crc32 (CRC-32, reflected polynomial 0xEDB88320), on 4-byte values
\* ------------------------------------------------------------------------

RECURSIVE BitXor(_, _)
BitXor(a, b) ==
    IF a = 0 THEN b
    ELSE IF b = 0 THEN a
    ELSE ((a + b) % 2) + 2 * BitXor(a \div 2, b \div 2)

Xor8 == [a \in 0..255 |-> [b \in 0..255 |-> BitXor(a, b)]]

Xor32(x, y) ==
    <<Xor8[x[1]][y[1]], Xor8[x[2]][y[2]], Xor8[x[3]][y[3]], Xor8[x[4]][y[4]]>>

\* One bit of the table computation on <<lo16, hi16>>.
CrcShift(c) ==
    LET lo == (c[1] \div 2) + (c[2] % 2) * 32768
        hi == c[2] \div 2
    IN  IF c[1] % 2 = 1
        THEN <<BitXor(lo, 33568), BitXor(hi, 60856)>>  \* 0x8320, 0xEDB8
        ELSE <<lo, hi>>

RECURSIVE CrcBits(_, _)
CrcBits(c, k) == IF k = 0 THEN c ELSE CrcBits(CrcShift(c), k - 1)

CrcTable ==
    [n \in 0..255 |->
        LET c == CrcBits(<<n, 0>>, 8)
        IN  <<c[1] % 256, c[1] \div 256, c[2] % 256, c[2] \div 256>>]

\* crc = table[(crc ^ byte) & 0xFF] ^ (crc >> 8)
CrcStep(c, byte) ==
    Xor32(CrcTable[Xor8[c[1]][byte]], <<c[2], c[3], c[4], 0>>)

RECURSIVE CrcUpdate(_, _, _, _)
CrcUpdate(c, data, lo, hi) ==
    IF lo > hi THEN c
    ELSE IF lo = hi THEN CrcStep(c, data[lo])
    ELSE LET mid == (lo + hi) \div 2
             left == CrcUpdate(c, data, lo, mid)
         IN  \* the test evaluates the left half before the right half starts
             IF left[1] >= 0 THEN CrcUpdate(left, data, mid + 1, hi) ELSE left

\* zlib.crc32(data) & 0xFFFFFFFF, as the four bytes struct.pack("<I", .) gives.
Crc32(data) ==
    Xor32(CrcUpdate(<<255, 255, 255, 255>>, data, 1, Len(data)),
          <<255, 255, 255, 255>>)


\* ------------------------------------------------------------------------
\* Inputs of the builders
\* ------------------------------------------------------------------------

\* The n bytes of payload number seed.
PayloadBytes(n, seed) ==
    [i \in 1..n |-> (i * 7 + (i \div 256) * 3 + seed * 101) % 256]

\* Payload lengths of the sends: one short, and one filling k frames for
\* every k in 2..MaxFrames (k - 1 full chunks and one more byte).
SendSizes == {70} \cup {(k - 1) * IMAGE_CHUNK_SIZE + 1 : k \in 2..MaxFrames}

SendInputs == {PayloadBytes(n, 0) : n \in SendSizes}

\* Payload lengths given to the builders alone: around the chunk size, its
\* multiples, and the 9000 bytes of the documented scenario.
CodecSizes == {0, 1, 70, 4095, 4096, 4097, 8192, 8193, 9000}

CodecInputs == {PayloadBytes(n, seed) : n \in CodecSizes, seed \in 0..MaxSeed}

\* zlib.crc32 of the payloads of the sends, computed once for the whole check.
Crc32Memo == [data \in SendInputs |-> Crc32(data)]

\* ------------------------------------------------------------------------
\* Frame builders (pure)
\* ------------------------------------------------------------------------

\* A static frame whose size field holds the length of its own chunk.
ImageFrameChunkSize(png_bytes, idx) ==
    LET chunk == Slice(png_bytes, idx, idx + IMAGE_CHUNK_SIZE)
    IN  StructPack_h(Len(chunk) + 9)
        \o <<0, 0>>
        \o <<IF idx = 0 THEN 0 ELSE 2>>
        \o StructPack_i(Len(chunk))
        \o chunk

\* header + bytearray(chunk) of one static frame (the loop body, 117-128).
ImageFrame(png_bytes, idx) ==
    LET total_size == Len(png_bytes)
        chunk == Slice(png_bytes, idx, idx + IMAGE_CHUNK_SIZE)
    IN  StructPack_h(Len(chunk) + 9)
        \o <<0, 0>>
        \o <<IF idx = 0 THEN 0 ELSE 2>>
        \o StructPack_i(total_size)
        \o chunk

\* _build_image_payloads: one frame per idx in range(0, total_size, 4096).
BuildImagePayloads(png_bytes) ==
    LET idxs == Range0(Len(png_bytes), IMAGE_CHUNK_SIZE)
    IN  [k \in 1..Len(idxs) |-> ImageFrame(png_bytes, idxs[k])]

\* An animated frame whose option byte marks the last chunk, not the first.
GifFrameFlagsLast(gif_bytes, crc, idx) ==
    LET total_size == Len(gif_bytes)
        chunk == Slice(gif_bytes, idx, idx + IMAGE_CHUNK_SIZE)
    IN  StructPack_h(Len(chunk) + 16)
        \o <<1, 0>>
        \o <<IF idx + IMAGE_CHUNK_SIZE >= total_size THEN 2 ELSE 0>>
        \o StructPack_i(total_size)
        \o crc
        \o <<5, 0, 13>>
        \o chunk

\* header + bytearray(chunk) of one animated frame (the loop body, 144-153).
GifFrame(gif_bytes, crc, idx) ==
    LET total_size == Len(gif_bytes)
        chunk == Slice(gif_bytes, idx, idx + IMAGE_CHUNK_SIZE)
    IN  StructPack_h(Len(chunk) + 16)
        \o <<1, 0>>
        \o <<IF idx = 0 THEN 0 ELSE 2>>
        \o StructPack_i(total_size)
        \o crc
        \o <<5, 0, 13>>
        \o chunk

\* The crc local of _build_gif_payloads (line 140), computed once.
GifCrc(gif_bytes) ==
    IF gif_bytes \in DOMAIN Crc32Memo THEN Crc32Memo[gif_bytes]
    ELSE Crc32(gif_bytes)

\* A builder that checksums each chunk instead of the whole payload.
BuildGifPayloadsChunkCrc(gif_bytes) ==
    LET idxs == Range0(Len(gif_bytes), IMAGE_CHUNK_SIZE)
    IN  [k \in 1..Len(idxs) |->
            GifFrame(gif_bytes,
                     Crc32(Slice(gif_bytes, idxs[k], idxs[k] + IMAGE_CHUNK_SIZE)),
                     idxs[k])]

\* _build_gif_payloads.
BuildGifPayloads(gif_bytes) ==
    LET crc == GifCrc(gif_bytes)
        idxs == Range0(Len(gif_bytes), IMAGE_CHUNK_SIZE)
    IN  IF crc[1] >= 0  \* the checksum is computed before the loop starts
        THEN [k \in 1..Len(idxs) |-> GifFrame(gif_bytes, crc, idxs[k])]
        ELSE <<>>

BuildPayloads(k, bytes) ==
    IF k = "static" THEN BuildImagePayloads(bytes) ELSE BuildGifPayloads(bytes)

\* ------------------------------------------------------------------------
\* Fragmentation (the while loop of _send_payloads, 163-168)
\* ------------------------------------------------------------------------

\* An end one byte past the write size.
FragEndPastMtu(payload, pos, mtu) == Min(pos + mtu + 1, Len(payload))

\* end = min(pos + self._mtu_size, len(payload))
FragEnd(payload, pos, mtu) == Min(pos + mtu, Len(payload))

\* chunk = bytes(payload[pos:end])
FragChunk(payload, pos, mtu) == Slice(payload, pos, FragEnd(payload, pos, mtu))

\* The slices the loop hands to write_gatt_char for one frame, from pos on.
\* One pass of the while loop on <<pos, slices written>>: the body when
\* the test pos < len(payload) holds, and nothing once the loop is over.
FragPass(payload, mtu, s) ==
    IF s[1] < Len(payload)
    THEN <<FragEnd(payload, s[1], mtu),
           Append(s[2], FragChunk(payload, s[1], mtu))>>
    ELSE s

\* n passes, the first half before the second.
RECURSIVE FragPasses(_, _, _, _)
FragPasses(payload, mtu, s, n) ==
    IF n = 0 THEN s
    ELSE IF n = 1 THEN FragPass(payload, mtu, s)
    ELSE LET half == FragPasses(payload, mtu, s, n \div 2)
         IN  IF half[1] >= 0
             THEN FragPasses(payload, mtu, half, n - (n \div 2))
             ELSE half

\* The slices the loop hands to write_gatt_char for one frame: every pass
\* moves pos forward, so len(payload) passes end the loop.
Fragments(payload, mtu) ==
    FragPasses(payload, mtu, <<0, <<>>>>, Len(payload))[2]

\* ------------------------------------------------------------------------
\* The notification callback (pure part)
\* ------------------------------------------------------------------------

\* A callback that does not look at the marker byte.
OnNotifyAcksNoMarker(acks, data) ==
    IF Len(data) >= 5
    THEN IF data[5] = 3 THEN <<TRUE, TRUE>>
         ELSE IF data[5] \in {0, 1, 2} THEN <<TRUE, acks[2]>> ELSE acks
    ELSE acks

\* _on_notify: the ack signals <<chunk_ack, final_ack>> after the callback ran.
OnNotifyAcks(acks, data) ==
    IF data = <<>> THEN acks
    ELSE IF Len(data) >= 5 /\ data[1] = 5
    THEN LET code == data[5]
             a1 == IF code \in {0, 1, 2} THEN <<TRUE, acks[2]>> ELSE acks
         IN  IF code = 3 THEN <<TRUE, TRUE>> ELSE a1
    ELSE acks

\* ------------------------------------------------------------------------
\* State
\* ------------------------------------------------------------------------

VARIABLES
    \* fields of DisplaySender
    client,           \* self._client: 0 is None, h >= 1 the h-th BleakClient made
    connected,        \* self._connected
    mtu_size,         \* self._mtu_size
    diy_mode_active,  \* self._diy_mode_active
    chunk_ack,        \* self._chunk_ack.is_set()
    final_ack,        \* self._final_ack.is_set()
    \* the transport: every BleakClient made so far
    links,            \* links[h] = [st: "new" | "open" | "lost" | "closed",
                      \*            notify: subscribed to NOTIFY_UUID]
    \* the one control flow that calls the session (asyncio, single-threaded)
    pc,               \* the await it is suspended at, or "idle"
    stack,            \* the coroutines in progress, outermost first
    cmd,              \* the cmd argument of _send_command
    arg,              \* the payload bytes of the call (PNG or GIF bytes)
    payloads,         \* the payloads list of _send_payloads
    idx,              \* its idx
    pos,              \* its pos
    result,           \* what the last call gave its caller: "True", "False",
                      \* "None", "self", "raised", or "pending"
    \* history
    wire,             \* slices written with response=False in the current call
    cmdlog,           \* buffers written with response=True in the current call
    raised,           \* the write that raised in the current call, if any:
                      \* "no", "cmd" (a command write) or "frag"
    calls,            \* API calls started
    op,               \* the method of the current (or last) call
    refused,          \* ensure_connected returned False in the current call:
                      \* "no", "call" (to the method called) or "diy" (to
                      \* the set_diy_mode that send_image calls)
    acklog,           \* the ack waits of the current call, in order, each
                      \* "chunk_ack", "chunk_timeout", "final_ack" or
                      \* "final_timeout"
    partial,          \* fragments had been written when a write raised
    connects,         \* connect() attempts of the current call
    lost_in_wait,     \* _on_disconnect ran during a chunk-ack wait of the
                      \* current call
    enables,          \* mode-enable commands send_image has issued so far
    diy_written,      \* a write of [5, 0, 4, 1, 1] has succeeded so far
    \* the pure-function and callback specifications
    kind,             \* "static" | "animated": the builder applied
    frags,            \* Fragments(frame, mtu) of each frame built
    prev_acks,        \* the ack signals before the last notification
    last_notify,      \* the last notification's data
    char_report,      \* what the transport reported for the write
                      \* characteristic to the negotiation applied
    mtu_report,       \* and the client's mtu_size
    brightness        \* the level given to set_brightness

vars == <<client, connected, mtu_size, diy_mode_active, chunk_ack, final_ack,
          links, pc, stack, cmd, arg, payloads, idx, pos, result,
          wire, cmdlog, raised, calls, op, refused, acklog, partial,
          connects, lost_in_wait, enables, diy_written,
          kind, frags, prev_acks, last_notify, char_report, mtu_report,
          brightness>>

sessionVars == <<client, connected, mtu_size, diy_mode_active, chunk_ack,
                 final_ack, links, pc, stack, cmd, arg, payloads, idx, pos,
                 result, wire, cmdlog, raised, calls, op, refused, acklog,
                 partial, connects, lost_in_wait, enables, diy_written>>

pureVars == <<kind, frags, prev_acks, last_notify, char_report, mtu_report,
              brightness>>

\* The session and its control flow as one record.
Cfg ==
    [client |-> client, connected |-> connected, mtu_size |-> mtu_size,
     diy_mode_active |-> diy_mode_active, chunk_ack |-> chunk_ack,
     final_ack |-> final_ack, links |-> links, pc |-> pc, stack |-> stack,
     cmd |-> cmd, arg |-> arg, payloads |-> payloads, idx |-> idx,
     pos |-> pos, result |-> result, wire |-> wire, cmdlog |-> cmdlog,
     raised |-> raised, calls |-> calls, op |-> op, refused |-> refused,
     acklog |-> acklog, partial |-> partial, connects |-> connects,
     lost_in_wait |-> lost_in_wait, enables |-> enables,
     diy_written |-> diy_written]

Commit(n) ==
    \E m \in {n} :
       /\ client' = m.client
       /\ connected' = m.connected
       /\ mtu_size' = m.mtu_size
       /\ diy_mode_active' = m.diy_mode_active
       /\ chunk_ack' = m.chunk_ack
       /\ final_ack' = m.final_ack
       /\ links' = m.links
       /\ pc' = m.pc
       /\ stack' = m.stack
       /\ cmd' = m.cmd
       /\ arg' = m.arg
       /\ payloads' = m.payloads
       /\ idx' = m.idx
       /\ pos' = m.pos
       /\ result' = m.result
       /\ wire' = m.wire
       /\ cmdlog' = m.cmdlog
       /\ raised' = m.raised
       /\ calls' = m.calls
       /\ op' = m.op
       /\ refused' = m.refused
       /\ acklog' = m.acklog
       /\ partial' = m.partial
       /\ connects' = m.connects
       /\ lost_in_wait' = m.lost_in_wait
       /\ enables' = m.enables
       /\ diy_written' = m.diy_written

\* __init__ (29-38), and the history empty.
InitFields ==
    /\ client = 0
    /\ connected = FALSE
    /\ mtu_size = DEFAULT_MTU
    /\ diy_mode_active = FALSE
    /\ chunk_ack = FALSE
    /\ final_ack = FALSE
    /\ links = <<>>
    /\ stack = <<>>
    /\ cmd = <<>>
    /\ payloads = <<>>
    /\ idx = 0
    /\ pos = 0
    /\ result = "pending"
    /\ wire = <<>>
    /\ cmdlog = <<>>
    /\ raised = "no"
    /\ calls = 0
    /\ op = "none"
    /\ refused = "no"
    /\ acklog = <<>>
    /\ partial = FALSE
    /\ connects = 0
    /\ lost_in_wait = FALSE
    /\ enables = 0
    /\ diy_written = FALSE

\* A session just made, with no call in progress.
InitSession == InitFields /\ pc = "idle" /\ arg = <<>>

InitPure ==
    /\ kind = "none"
    /\ frags = <<>>
    /\ prev_acks = <<FALSE, FALSE>>
    /\ last_notify = <<>>
    /\ char_report = [kind |-> "none", size |-> 0]
    /\ mtu_report = 23
    /\ brightness = 0

\* ------------------------------------------------------------------------
\* Inputs
\* ------------------------------------------------------------------------

\* What the transport reports at connect: the write characteristic's
\* max_write_without_response_size ("none": no such characteristic,
\* "raise": the lookup raises), and the client's mtu_size.
CharReports ==
    {[kind |-> "raise", size |-> 0], [kind |-> "none", size |-> 0]}
    \cup {[kind |-> "size", size |-> n] : n \in {20, 512}}

\* 20 is below what a link can have: only the floor (78-79) answers it.
MtuSizes == {20, 23, 515}

\* Notifications the device may send on NOTIFY_UUID.
NotifyInputs ==
    {<<>>, <<5>>, <<5, 0, 0>>, <<5, 0, 0, 3>>, <<4, 0, 0, 0, 3>>,
     <<0, 0, 0, 0, 1>>, <<5, 1, 2, 3, 3, 9>>, <<5, 9, 9, 9, 1>>}
    \cup {<<5, b, 0, 0, st>> : b \in {0, 7, 255}, st \in {0, 1, 2, 3, 4, 255}}
    \cup {<<m, 0, 0, 0, st, 0>> : m \in {5, 6}, st \in {1, 3}}

\* ------------------------------------------------------------------------
\* The code between two awaits, as functions of the configuration
\* ------------------------------------------------------------------------

Top(c) == c.stack[Len(c.stack)]

\* self._client and self._client.is_connected
IsLive(c) == c.client # 0 /\ c.links[c.client].st = "open"

\* The outermost coroutine gives v to its caller. Its locals are gone; the
\* model keeps payloads and wire after a call that returned True (for what
\* is said of a completed transmission) and drops them otherwise.
Finish(c, v) ==
    [c EXCEPT !.pc = "idle", !.stack = <<>>, !.result = v,
              !.cmd = <<>>, !.arg = <<>>, !.idx = 0, !.pos = 0,
              !.payloads = IF v = "True" THEN @ ELSE <<>>,
              !.wire = IF v = "True" THEN @ ELSE <<>>]

\* _send_command returns v: to the caller of the session, or to send_image
\* (through set_diy_mode, line 198), which drops v and sleeps (line 199).
ReturnFromCommand(c, v) ==
    IF Len(c.stack) = 1 THEN Finish(c, v)
    ELSE [c EXCEPT !.stack = SubSeq(@, 1, Len(@) - 1), !.pc = "diy_sleep"]

\* _send_payloads returned True (line 181): send_image goes on to wait for
\* the final ack (216), send_gif returns it (252).
SendPayloadsReturned(c) ==
    IF Top(c) = "send_image" THEN [c EXCEPT !.pc = "wait_final"]
    ELSE Finish(c, "True")

RECURSIVE SendPayloadsFrame(_)

\* A loop that sends the same frame again.
NextFrameRepeats(c) == SendPayloadsFrame(c)

\* The for loop (159) goes to its next index.
NextFrame(c) == SendPayloadsFrame([c EXCEPT !.idx = @ + 1])

\* After the while loop of frame idx (170-179).
AfterFrame(c) ==
    IF Len(c.payloads) > 1 /\ c.idx < Len(c.payloads) - 1
    THEN [c EXCEPT !.pc = "wait_chunk"]
    ELSE NextFrame(c)

\* The while test (164): the next write is awaited, or the frame is done.
FragLoop(c) ==
    IF c.pos < Len(c.payloads[c.idx + 1])
    THEN [c EXCEPT !.pc = "frag_write"]
    ELSE AfterFrame(c)

\* The for loop at index idx (159-163).
SendPayloadsFrame(c) ==
    IF c.idx >= Len(c.payloads) THEN SendPayloadsReturned(c)
    ELSE FragLoop([c EXCEPT !.chunk_ack = FALSE, !.pos = 0])

\* send_image, 202-212: the PNG bytes are framed, final_ack is cleared and
\* _send_payloads starts (png_bytes is not read again).
SendImageTransmit(c) ==
    SendPayloadsFrame([c EXCEPT !.payloads = BuildImagePayloads(c.arg),
                                !.arg = <<>>,
                                !.final_ack = FALSE,
                                !.idx = 0])

\* send_gif, 250-252.
SendGifTransmit(c) ==
    SendPayloadsFrame([c EXCEPT !.payloads = BuildGifPayloads(c.arg),
                                !.arg = <<>>,
                                !.idx = 0])

\* connect(), 64-68: a new BleakClient replaces self._client and its
\* connect() is awaited.
Connect(c) ==
    [c EXCEPT !.links = Append(@, [st |-> "new", notify |-> FALSE]),
              !.client = Len(c.links) + 1,
              !.connects = @ + 1,
              !.pc = "connect"]

RECURSIVE EnsureConnected(_)

\* A send_image that connects anew for its mode-enable command.
SendImageBodyReconnects(c) ==
    IF ~c.diy_mode_active
    THEN Connect([c EXCEPT !.stack = Append(@, "_send_command"),
                           !.cmd = <<5, 0, 4, 1, 1>>,
                           !.enables = @ + 1])
    ELSE SendImageTransmit(c)

\* send_image, 195-200, entered with ensure_connected true.
SendImageBody(c) ==
    IF ~c.diy_mode_active
    THEN EnsureConnected([c EXCEPT !.stack = Append(@, "_send_command"),
                                   !.cmd = <<5, 0, 4, 1, 1>>,
                                   !.enables = @ + 1])
    ELSE SendImageTransmit(c)

\* ensure_connected gave b to the coroutine on top of the stack.
EnsureReturned(c, b) ==
    LET r == [c EXCEPT !.refused = IF Len(c.stack) = 1 THEN "call" ELSE "diy"]
    IN  CASE Top(c) = "_send_command" ->
                IF b THEN [c EXCEPT !.pc = "cmd_write"]
                ELSE ReturnFromCommand(r, "False")
          [] Top(c) = "send_image" ->
                IF b THEN SendImageBody(c) ELSE Finish(r, "False")
          [] Top(c) = "send_gif" ->
                IF b THEN SendGifTransmit(c) ELSE Finish(r, "False")

\* An ensure_connected that connects whatever the state of the session.
EnsureConnectedAlways(c) == Connect(c)

\* ensure_connected, 94-98.
EnsureConnected(c) ==
    IF c.connected /\ IsLive(c) THEN EnsureReturned(c, TRUE)
    ELSE Connect(c)

\* A negotiation without the floor of lines 78-79.
NegotiatedSizeNoFloor(char, mtu) ==
    IF char.kind = "size" /\ char.size > 20 THEN char.size ELSE mtu - 3

\* A negotiation that prefers the estimate from the MTU.
NegotiatedSizeMtuFirst(char, mtu) ==
    LET m == IF mtu - 3 > 20 THEN mtu - 3
             ELSE IF char.kind = "size" THEN char.size ELSE 20
    IN  IF m < 20 THEN 20 ELSE m

\* connect(), 69-79: the write size negotiated from what the transport says.
NegotiatedSize(char, mtu) ==
    LET m == IF char.kind = "size" /\ char.size > 20 THEN char.size
             ELSE mtu - 3
    IN  IF m < 20 THEN 20 ELSE m

\* An ensure_connected that answers True although connect() raised.
ConnectRaisedReturnsTrue(c) ==
    IF Top(c) = "__aenter__" THEN Finish(c, "raised")
    ELSE EnsureReturned([c EXCEPT !.connected = FALSE], TRUE)

\* connect() raised (at 68, 75-77 or 81): __aenter__ lets it through (288),
\* ensure_connected clears the flag and returns False (100-103).
ConnectRaised(c) ==
    IF Top(c) = "__aenter__" THEN Finish(c, "raised")
    ELSE EnsureReturned([c EXCEPT !.connected = FALSE], FALSE)

\* A connect() that starts the new connection with the DIY flag reset.
ConnectReturnedResetsDiy(c) ==
    LET d == [c EXCEPT !.connected = TRUE, !.diy_mode_active = FALSE]
    IN  IF Top(c) = "__aenter__" THEN Finish(d, "self")
        ELSE EnsureReturned(d, TRUE)

\* connect() done (82): __aenter__ returns self, ensure_connected True.
ConnectReturned(c) ==
    LET d == [c EXCEPT !.connected = TRUE]
    IN  IF Top(c) = "__aenter__" THEN Finish(d, "self")
        ELSE EnsureReturned(d, TRUE)

\* A call starts: the history of the previous call is dropped.
Begin(c, name) ==
    [c EXCEPT !.stack = <<name>>, !.calls = @ + 1, !.result = "pending",
              !.op = name, !.refused = "no", !.acklog = <<>>,
              !.partial = FALSE, !.connects = 0, !.lost_in_wait = FALSE,
              !.wire = <<>>, !.cmdlog = <<>>, !.raised = "no",
              !.payloads = <<>>, !.idx = 0, !.pos = 0,
              !.cmd = <<>>, !.arg = <<>>]

\* bytes(list): ValueError unless every element is in range(256).
IsBytes(list) == \A k \in 1..Len(list) : list[k] \in 0..255

\* A command method: the buffer is built, then _send_command runs (260-262).
Command(c, list) ==
    IF IsBytes(list)
    THEN EnsureConnected([Begin(c, "_send_command") EXCEPT !.cmd = list])
    ELSE Finish(Begin(c, "_send_command"), "raised")

\* int(b) for a bool.
BoolInt(b) == IF b THEN 1 ELSE 0

\* ------------------------------------------------------------------------
\* The caller: one API call at a time
\* ------------------------------------------------------------------------

CanCall == pc = "idle" /\ calls < MaxCalls

\* send_image(image), 187-193; image stands for the PNG bytes it encodes to.
CallSendImage ==
    /\ CanCall
    /\ \E png \in SendInputs :
          Commit(EnsureConnected([Begin(Cfg, "send_image") EXCEPT !.arg = png]))
    /\ UNCHANGED pureVars

\* send_gif(gif_path), 226-229; gif_path stands for the GIF bytes read.
CallSendGif ==
    /\ CanCall
    /\ \E gif \in SendInputs :
          Commit(EnsureConnected([Begin(Cfg, "send_gif") EXCEPT !.arg = gif]))
    /\ UNCHANGED pureVars

BrightnessLevels == {-5, 0, 80, 100, 150}

\* A set_brightness that puts the level on the wire as it is given.
BrightnessCommandUnclamped(level) == <<5, 0, 4, 128, level>>

\* set_brightness(level), 270-273.
BrightnessCommand(level) == <<5, 0, 4, 128, Max(0, Min(100, level))>>

CallSetBrightness ==
    /\ CanCall
    /\ \E level \in BrightnessLevels : Commit(Command(Cfg, BrightnessCommand(level)))
    /\ UNCHANGED pureVars

\* set_power(on), 275-277.
PowerCommand(on) == <<5, 0, 7, 1, BoolInt(on)>>

CallSetPower ==
    /\ CanCall
    /\ \E on \in BOOLEAN : Commit(Command(Cfg, PowerCommand(on)))
    /\ UNCHANGED pureVars

\* clear(), 279-281.
ClearCommand == <<3, 0, 10>>

CallClear ==
    /\ CanCall
    /\ Commit(Command(Cfg, ClearCommand))
    /\ UNCHANGED pureVars

Colors == {<<0, 0, 0>>, <<255, 128, 1>>, <<300, 0, 0>>, <<0, -1, 0>>}

\* set_fullscreen_color(r, g, b), 283-285.
ColorCommand(r, g, b) == <<7, 0, 2, 2, r, g, b>>

CallSetFullscreenColor ==
    /\ CanCall
    /\ \E rgb \in Colors : Commit(Command(Cfg, ColorCommand(rgb[1], rgb[2], rgb[3])))
    /\ UNCHANGED pureVars

\* set_diy_mode(enable), 183-185.
DiyCommand(enable) == <<5, 0, 4, 1, BoolInt(enable)>>

CallSetDiyMode ==
    /\ CanCall
    /\ \E enable \in BOOLEAN : Commit(Command(Cfg, DiyCommand(enable)))
    /\ UNCHANGED pureVars

\* __aenter__, 287-289: connect() with nothing caught.
CallAenter ==
    /\ CanCall
    /\ Commit(Connect(Begin(Cfg, "__aenter__")))
    /\ UNCHANGED pureVars

\* disconnect() (also __aexit__, 291-292), 84-87.
CallDisconnect ==
    /\ CanCall
    /\ LET c == Begin(Cfg, "disconnect")
       IN  IF c.client # 0 /\ c.connected
           THEN Commit([c EXCEPT !.pc = "stop_notify"])
           ELSE Commit(Finish(c, "None"))
    /\ UNCHANGED pureVars

\* ------------------------------------------------------------------------
\* The awaits and what resumes them
\* ------------------------------------------------------------------------

SetLink(c, h, st) == [c EXCEPT !.links[h].st = st]

\* await self._client.connect() (68) returns; the write size is negotiated
\* (69-79) and start_notify is awaited (81).
ConnectOk ==
    /\ pc = "connect"
    /\ \E char \in CharReports, mtu \in MtuSizes :
          Commit([SetLink(Cfg, client, "open") EXCEPT
                     !.mtu_size = NegotiatedSize(char, mtu),
                     !.pc = "start_notify"])
    /\ UNCHANGED pureVars

\* await self._client.connect() returns and the fallback read of
\* self._client.mtu_size (75, 77) raises: nothing in connect() catches it.
NegotiateFail ==
    /\ pc = "connect"
    /\ Commit(ConnectRaised(SetLink(Cfg, client, "open")))
    /\ UNCHANGED pureVars

\* await self._client.connect() raises.
ConnectFail ==
    /\ pc = "connect"
    /\ Commit(ConnectRaised(Cfg))
    /\ UNCHANGED pureVars

\* await start_notify (81) returns, line 82 runs and connect() is done.
StartNotifyOk ==
    /\ pc = "start_notify"
    /\ IsLive(Cfg)
    /\ Commit(ConnectReturned([Cfg EXCEPT !.links[client].notify = TRUE]))
    /\ UNCHANGED pureVars

\* await start_notify raises.
StartNotifyFail ==
    /\ pc = "start_notify"
    /\ Commit(ConnectRaised(Cfg))
    /\ UNCHANGED pureVars

\* A command written the way a fragment is, without response.
CmdWrittenNoResponse(c) ==
    ReturnFromCommand([c EXCEPT !.wire = Append(@, c.cmd)], "True")

\* await write_gatt_char(WRITE_UUID, cmd, response=True) (264) returns:
\* the whole buffer went out in that one write, and _send_command returns
\* True (265).
CmdWritten(c) ==
    ReturnFromCommand(
        [c EXCEPT !.cmdlog = Append(@, c.cmd),
                  !.diy_written = @ \/ c.cmd = <<5, 0, 4, 1, 1>>],
        "True")

CmdWriteOk ==
    /\ pc = "cmd_write"
    /\ IsLive(Cfg)
    /\ Commit(CmdWritten(Cfg))
    /\ UNCHANGED pureVars

\* The same write raises: _send_command returns False (266-268).
CmdWriteFail ==
    /\ pc = "cmd_write"
    /\ Commit(ReturnFromCommand([Cfg EXCEPT !.raised = "cmd"], "False"))
    /\ UNCHANGED pureVars

\* await asyncio.sleep(0.3) (199) is over; line 200, then 202-212.
DiySettled ==
    /\ pc = "diy_sleep"
    /\ Commit(SendImageTransmit([Cfg EXCEPT !.diy_mode_active = TRUE]))
    /\ UNCHANGED pureVars

\* A while loop that clears chunk_ack at every fragment.
FragWrittenClearsAck(c) ==
    LET payload == c.payloads[c.idx + 1]
    IN  FragLoop([c EXCEPT !.wire = Append(@, FragChunk(payload, c.pos, c.mtu_size)),
                           !.pos = FragEnd(payload, c.pos, c.mtu_size),
                           !.chunk_ack = FALSE])

\* The fragment write of the while loop, 165-168, awaited at 167.
FragWritten(c) ==
    LET payload == c.payloads[c.idx + 1]
    IN  FragLoop([c EXCEPT !.wire = Append(@, FragChunk(payload, c.pos, c.mtu_size)),
                           !.pos = FragEnd(payload, c.pos, c.mtu_size)])

FragWriteOk ==
    /\ pc = "frag_write"
    /\ IsLive(Cfg)
    /\ Len(wire) < MaxWrites
    /\ Commit(FragWritten(Cfg))
    /\ UNCHANGED pureVars

\* An except clause that leaves the connected flag as it is.
SendRaisedKeepsFlag(c) ==
    Finish([c EXCEPT !.raised = "frag", !.partial = (c.wire # <<>>)], "False")

\* The fragment write raises: the except clause of send_image (221-224) or
\* send_gif (253-256) runs.
SendRaised(c) ==
    Finish([c EXCEPT !.connected = FALSE, !.raised = "frag",
                     !.partial = (c.wire # <<>>)], "False")

FragWriteFail ==
    /\ pc = "frag_write"
    /\ Commit(SendRaised(Cfg))
    /\ UNCHANGED pureVars

\* wait_for(self._chunk_ack.wait(), 2.0) (175) returns: the event is set.
ChunkWaitReturned(c) == NextFrame([c EXCEPT !.acklog = Append(@, "chunk_ack")])

ChunkAckArrived ==
    /\ pc = "wait_chunk"
    /\ chunk_ack
    /\ Commit(ChunkWaitReturned(Cfg))
    /\ UNCHANGED pureVars

\* A timeout after which the send gives up without a further write.
ChunkWaitTimedOutGivesUp(c) ==
    Finish([c EXCEPT !.acklog = Append(@, "chunk_timeout")], "False")

\* A timeout that ends the transfer.
ChunkWaitTimedOutFatal(c) ==
    Finish([c EXCEPT !.acklog = Append(@, "chunk_timeout"),
                     !.connected = FALSE], "False")

\* The same wait times out (177): sleep(0.3) is awaited (179).
ChunkWaitTimedOut(c) ==
    [c EXCEPT !.acklog = Append(@, "chunk_timeout"), !.pc = "backoff"]

ChunkAckTimeout ==
    /\ pc = "wait_chunk"
    /\ ~chunk_ack
    /\ Commit(ChunkWaitTimedOut(Cfg))
    /\ UNCHANGED pureVars

BackoffDone ==
    /\ pc = "backoff"
    /\ Commit(NextFrame(Cfg))
    /\ UNCHANGED pureVars

\* A final wait without a timeout: it ends only when the event is set.
FinalWaitOverWaitsOn(c, how) ==
    IF how = "final_timeout" THEN c
    ELSE Finish([c EXCEPT !.acklog = Append(@, how)], "True")

\* wait_for(self._final_ack.wait(), 1.0) (216) returns or times out (217):
\* send_image returns result (220), which is True.
FinalWaitOver(c, how) == Finish([c EXCEPT !.acklog = Append(@, how)], "True")

FinalAckArrived ==
    /\ pc = "wait_final"
    /\ final_ack
    /\ Commit(FinalWaitOver(Cfg, "final_ack"))
    /\ UNCHANGED pureVars

FinalAckTimeout ==
    /\ pc = "wait_final"
    /\ ~final_ack
    /\ Commit(FinalWaitOver(Cfg, "final_timeout"))
    /\ UNCHANGED pureVars

\* disconnect(): stop_notify (87) returns, or raises and is passed over (88).
StopNotifyOk ==
    /\ pc = "stop_notify"
    /\ IsLive(Cfg)
    /\ Commit([Cfg EXCEPT !.links[client].notify = FALSE, !.pc = "client_disconnect"])
    /\ UNCHANGED pureVars

StopNotifyFail ==
    /\ pc = "stop_notify"
    /\ Commit([Cfg EXCEPT !.pc = "client_disconnect"])
    /\ UNCHANGED pureVars

\* await self._client.disconnect() (90) returns; line 91.
ClientDisconnectOk ==
    /\ pc = "client_disconnect"
    /\ Commit(Finish([SetLink(Cfg, client, "closed") EXCEPT !.connected = FALSE],
                     "None"))
    /\ UNCHANGED pureVars

\* It raises: disconnect() catches nothing there.
ClientDisconnectFail ==
    /\ pc = "client_disconnect"
    /\ Commit(Finish(Cfg, "raised"))
    /\ UNCHANGED pureVars

\* ------------------------------------------------------------------------
\* Callbacks the transport runs while the control flow is suspended
\* ------------------------------------------------------------------------

\* A callback that also forgets the handle.
LinkLostDropsHandle(c, h) ==
    [SetLink(c, h, "lost") EXCEPT
        !.connected = FALSE,
        !.client = 0,
        !.lost_in_wait = @ \/ c.pc = "wait_chunk"]

\* The link of client h drops: its disconnected_callback is _on_disconnect
\* (44-46) of this session, whichever client is current.
LinkLost(c, h) ==
    [SetLink(c, h, "lost") EXCEPT
        !.connected = FALSE,
        !.lost_in_wait = @ \/ c.pc = "wait_chunk"]

OnDisconnect ==
    /\ \E h \in 1..Len(links) :
          /\ links[h].st = "open"
          /\ Commit(LinkLost(Cfg, h))
    /\ UNCHANGED pureVars

\* A notification arrives from a subscribed client: _on_notify (48-60).
OnNotify ==
    /\ \E h \in 1..Len(links) : links[h].st = "open" /\ links[h].notify
    /\ \E acks \in {OnNotifyAcks(<<chunk_ack, final_ack>>, data) :
                        data \in NotifyInputs} :
          Commit([Cfg EXCEPT !.chunk_ack = acks[1], !.final_ack = acks[2]])
    /\ UNCHANGED pureVars

Init == InitSession /\ InitPure

Next ==
    \/ CallSendImage \/ CallSendGif
    \/ CallSetBrightness \/ CallSetPower \/ CallClear
    \/ CallSetFullscreenColor \/ CallSetDiyMode
    \/ CallAenter \/ CallDisconnect
    \/ ConnectOk \/ NegotiateFail \/ ConnectFail
    \/ StartNotifyOk \/ StartNotifyFail
    \/ CmdWriteOk \/ CmdWriteFail \/ DiySettled
    \/ FragWriteOk \/ FragWriteFail
    \/ ChunkAckArrived \/ ChunkAckTimeout \/ BackoffDone
    \/ FinalAckArrived \/ FinalAckTimeout
    \/ StopNotifyOk \/ StopNotifyFail
    \/ ClientDisconnectOk \/ ClientDisconnectFail
    \/ OnDisconnect \/ OnNotify

Spec == Init /\ [][Next]_vars

\* The session with its awaits completing: every transport call awaited
\* (connect at 68, start_notify at 81, the writes at 167 and 264) returns
\* or raises, and every asyncio.sleep (179, 199) and wait_for (175, 216)
\* returns or times out. Nothing is assumed of the callbacks: the device
\* may never notify and the link may never drop. The one control flow is
\* suspended at one await at a time, so that one condition on the await
\* in progress says it of each.
AwaitOver ==
    \/ ConnectOk \/ NegotiateFail \/ ConnectFail
    \/ StartNotifyOk \/ StartNotifyFail
    \/ CmdWriteOk \/ CmdWriteFail \/ DiySettled
    \/ FragWriteOk \/ FragWriteFail
    \/ ChunkAckArrived \/ ChunkAckTimeout \/ BackoffDone
    \/ FinalAckArrived \/ FinalAckTimeout

SpecLive == Spec /\ WF_vars(AwaitOver)

\* ------------------------------------------------------------------------
\* The frame builders and the fragmentation on their own
\* ------------------------------------------------------------------------

\* Write sizes tried on every frame: the floor, 821 and 257 (which divide
\* the lengths 4105 and 4112 of a full static and animated frame), and
\* sizes around and above a whole frame.
CodecMtus == {20, 21, 100, 257, 512, 821, 4104, 4105, 4106, 5000}

InitCodec ==
    /\ InitFields
    /\ pc = "input"
    /\ kind \in {"static", "animated"}
    /\ arg \in CodecInputs
    /\ frags = <<>>
    /\ prev_acks = <<FALSE, FALSE>>
    /\ last_notify = <<>>
    /\ char_report = [kind |-> "none", size |-> 0]
    /\ mtu_report = 23
    /\ brightness = 0

\* _build_image_payloads or _build_gif_payloads is applied to the input.
CodecBuild ==
    /\ pc = "input"
    /\ payloads' = BuildPayloads(kind, arg)
    /\ pc' = "built"
    /\ UNCHANGED <<client, connected, mtu_size, diy_mode_active, chunk_ack,
                   final_ack, links, stack, cmd, arg, idx, pos, result, wire,
                   cmdlog, raised, calls, op, refused, acklog, partial,
                   connects, lost_in_wait, enables, diy_written>>
    /\ UNCHANGED pureVars

\* Every frame built is cut as the while loop of _send_payloads cuts it.
CodecFragment ==
    /\ pc = "built"
    /\ \E m \in CodecMtus :
          /\ mtu_size' = m
          /\ frags' = [k \in 1..Len(payloads) |-> Fragments(payloads[k], m)]
    /\ pc' = "fragmented"
    /\ UNCHANGED <<client, connected, diy_mode_active, chunk_ack, final_ack,
                   links, stack, cmd, arg, payloads, idx, pos, result, wire,
                   cmdlog, raised, calls, op, refused, acklog, partial,
                   connects, lost_in_wait, enables, diy_written>>
    /\ UNCHANGED <<kind, prev_acks, last_notify, char_report, mtu_report,
                   brightness>>

NextCodec == CodecBuild \/ CodecFragment

SpecCodec == InitCodec /\ [][NextCodec]_vars

\* ------------------------------------------------------------------------
\* The ack signals on their own
\* ------------------------------------------------------------------------

InitAck ==
    /\ InitFields
    /\ pc = "acks"
    /\ arg = <<>>
    /\ InitPure

ackFrame == <<client, connected, mtu_size, diy_mode_active, links, pc, stack,
              cmd, arg, payloads, idx, pos, result, wire, cmdlog, raised,
              calls, op, refused, acklog, partial, connects, lost_in_wait,
              enables, diy_written, kind, frags, char_report, mtu_report,
              brightness>>

\* A notification is delivered: _on_notify runs on the two events.
AckNotify ==
    /\ \E data \in NotifyInputs :
          LET acks == OnNotifyAcks(<<chunk_ack, final_ack>>, data)
          IN  /\ chunk_ack' = acks[1]
              /\ final_ack' = acks[2]
              /\ prev_acks' = <<chunk_ack, final_ack>>
              /\ last_notify' = data
    /\ UNCHANGED ackFrame

\* self._chunk_ack.clear() (160), by the sending control flow.
AckClearChunk ==
    /\ chunk_ack' = FALSE
    /\ final_ack' = final_ack
    /\ prev_acks' = <<FALSE, final_ack>>
    /\ last_notify' = <<>>
    /\ UNCHANGED ackFrame

\* self._final_ack.clear() (211).
AckClearFinal ==
    /\ chunk_ack' = chunk_ack
    /\ final_ack' = FALSE
    /\ prev_acks' = <<chunk_ack, FALSE>>
    /\ last_notify' = <<>>
    /\ UNCHANGED ackFrame

NextAck == AckNotify \/ AckClearChunk \/ AckClearFinal

SpecAck == InitAck /\ [][NextAck]_vars

\* ------------------------------------------------------------------------
\* The negotiation of the write size on its own
\* ------------------------------------------------------------------------

\* Reports for the write characteristic: lookup raising, no characteristic,
\* or a max_write_without_response_size from the 20 a transport gives
\* before it knows better up to 512.
NegotiateChars ==
    {[kind |-> "raise", size |-> 0], [kind |-> "none", size |-> 0]}
    \cup {[kind |-> "size", size |-> n] :
              n \in {20, 21, 23, 100, 182, 244, 509, 512}}

\* The client's mtu_size: around the floor, and up to 515.
NegotiateMtus == {20, 23, 24, 27, 103, 185, 247, 512, 515}

InitNegotiate ==
    /\ InitFields
    /\ pc = "report"
    /\ arg = <<>>
    /\ kind = "none"
    /\ frags = <<>>
    /\ prev_acks = <<FALSE, FALSE>>
    /\ last_notify = <<>>
    /\ char_report \in NegotiateChars
    /\ mtu_report \in NegotiateMtus
    /\ brightness = 0

\* Lines 69-79 of connect() are applied to the reports.
Negotiate ==
    /\ pc = "report"
    /\ mtu_size' = NegotiatedSize(char_report, mtu_report)
    /\ pc' = "negotiated"
    /\ UNCHANGED <<client, connected, diy_mode_active, chunk_ack, final_ack,
                   links, stack, cmd, arg, payloads, idx, pos, result, wire,
                   cmdlog, raised, calls, op, refused, acklog, partial,
                   connects, lost_in_wait, enables, diy_written>>
    /\ UNCHANGED pureVars

NextNegotiate == Negotiate

SpecNegotiate == InitNegotiate /\ [][NextNegotiate]_vars

\* ------------------------------------------------------------------------
\* set_brightness on a connected session (270-273, 260-268)
\* ------------------------------------------------------------------------

\* The levels given run from -MaxLevel to MaxLevel: below 0, within 0..100,
\* above 100, and above what a byte holds.
Levels == -MaxLevel..MaxLevel

\* A session on which connect() has returned True and no call is in
\* progress; the caller is about to give set_brightness a level.
InitCommand ==
    /\ client = 1
    /\ connected = TRUE
    /\ mtu_size \in {NegotiatedSize(char, mtu) : char \in CharReports, mtu \in MtuSizes}
    /\ diy_mode_active = FALSE
    /\ chunk_ack = FALSE
    /\ final_ack = FALSE
    /\ links = <<[st |-> "open", notify |-> TRUE]>>
    /\ pc = "idle"
    /\ stack = <<>>
    /\ cmd = <<>>
    /\ arg = <<>>
    /\ payloads = <<>>
    /\ idx = 0
    /\ pos = 0
    /\ result = "pending"
    /\ wire = <<>>
    /\ cmdlog = <<>>
    /\ raised = "no"
    /\ calls = 0
    /\ op = "none"
    /\ refused = "no"
    /\ acklog = <<>>
    /\ partial = FALSE
    /\ connects = 0
    /\ lost_in_wait = FALSE
    /\ enables = 0
    /\ diy_written = FALSE
    /\ kind = "none"
    /\ frags = <<>>
    /\ prev_acks = <<FALSE, FALSE>>
    /\ last_notify = <<>>
    /\ char_report = [kind |-> "none", size |-> 0]
    /\ mtu_report = 23
    /\ brightness \in Levels

\* set_brightness(level) is called with the level of this run.
SetBrightness ==
    /\ pc = "idle"
    /\ calls = 0
    /\ Commit(Command(Cfg, BrightnessCommand(brightness)))
    /\ UNCHANGED pureVars

NextCommand == SetBrightness \/ CmdWriteOk \/ CmdWriteFail

SpecCommand == InitCommand /\ [][NextCommand]_vars

\* ------------------------------------------------------------------------
\* What is checked
\* ------------------------------------------------------------------------

CeilDiv(a, b) == IF a % b = 0 THEN a \div b ELSE (a \div b) + 1

\* The sequences ss[lo], ..., ss[hi] joined.
RECURSIVE ConcatRange(_, _, _)
ConcatRange(ss, lo, hi) ==
    IF lo > hi THEN <<>>
    ELSE IF lo = hi THEN ss[lo]
    ELSE LET mid == (lo + hi) \div 2
         IN  ConcatRange(ss, lo, mid) \o ConcatRange(ss, mid + 1, hi)

ConcatAll(ss) == ConcatRange(ss, 1, Len(ss))

IsPrefix(a, b) == Len(a) <= Len(b) /\ SubSeq(b, 1, Len(a)) = a

\* The header length of a frame of the kind built.
HeaderLen(k) == IF k = "static" THEN 9 ELSE 16

\* The chunk part of a frame.
ChunkOf(k, frame) == SubSeq(frame, HeaderLen(k) + 1, Len(frame))

\* The payload offset at which the chunk of frame n starts.
RECURSIVE ChunkOffset(_, _, _)
ChunkOffset(k, frames, n) ==
    IF n = 1 THEN 0
    ELSE ChunkOffset(k, frames, n - 1) + Len(ChunkOf(k, frames[n - 1]))

\* The slices of one frame at write size m, by position: slice j holds the
\* bytes (j-1)*m+1 .. min(j*m, length).
SlicesOf(frame, m) ==
    [j \in 1..CeilDiv(Len(frame), m) |->
        SubSeq(frame, (j - 1) * m + 1, Min(j * m, Len(frame)))]

\* All slices of all frames, frame by frame.
ExpectedWire(frames, m) ==
    ConcatAll([k \in 1..Len(frames) |-> SlicesOf(frames[k], m)])

IsSend == op \in {"send_image", "send_gif"}

\* C1: in a send_image or send_gif call the slices written without response
\* are at every moment the first slices of the frames' fragments, frame 0
\* first and each frame in increasing offset order, and when the call has
\* returned True they are all of them: none skipped, repeated or reordered,
\* whatever notifications and ack timeouts came in between.
C1_FragmentsInOrder ==
    /\ (IsSend /\ payloads # <<>>) =>
          IsPrefix(wire, ExpectedWire(payloads, mtu_size))
    /\ (IsSend /\ pc = "idle" /\ result = "True") =>
          /\ payloads # <<>>
          /\ wire = ExpectedWire(payloads, mtu_size)

\* A two-frame animation sent whole at write size 512, the chunk ack having
\* arrived: nine slices of the first frame and one of the second.
C1_Witness ==
    /\ op = "send_gif" /\ pc = "idle" /\ result = "True"
    /\ Len(payloads) = 2 /\ mtu_size = 512
    /\ Len(wire) = 10 /\ Len(wire[9]) = 16 /\ Len(wire[10]) = 17
    /\ acklog = <<"chunk_ack">>

\* C2: for every frame and every write size M >= 20, the fragments of the
\* frame join back to the frame, each is at most M bytes and none is empty,
\* and when the frame is longer than M all but the last are exactly M bytes.
C2_FragmentsRebuildFrame ==
    pc = "fragmented" =>
        /\ mtu_size >= 20
        /\ Len(frags) = Len(payloads)
        /\ \A k \in 1..Len(payloads) :
              LET frame == payloads[k]
                  fs == frags[k]
              IN  /\ ConcatAll(fs) = frame
                  /\ \A j \in 1..Len(fs) :
                        Len(fs[j]) >= 1 /\ Len(fs[j]) <= mtu_size
                  /\ Len(frame) > mtu_size =>
                        \A j \in 1..(Len(fs) - 1) : Len(fs[j]) = mtu_size

\* A full static frame (4105 bytes) cut at the floor size: 205 fragments of
\* 20 bytes and a last one of 5.
C2_Witness ==
    /\ pc = "fragmented" /\ kind = "static" /\ mtu_size = 20
    /\ Len(payloads) = 2
    /\ Len(payloads[1]) = 4105
    /\ Len(frags[1]) = 206
    /\ Len(frags[1][205]) = 20
    /\ Len(frags[1][206]) = 5

\* C3: both builders give ceil(P / 4096) frames for a payload of P bytes,
\* the chunk parts of the frames join back to the payload, and the
\* total_size field of every frame is P.
C3_FrameCountAndTotalSize ==
    pc = "built" =>
        /\ Len(payloads) = CeilDiv(Len(arg), IMAGE_CHUNK_SIZE)
        /\ ConcatAll([k \in 1..Len(payloads) |-> ChunkOf(kind, payloads[k])]) = arg
        /\ \A k \in 1..Len(payloads) :
              LEValue(SubSeq(payloads[k], 6, 9)) = Len(arg)

\* The documented scenario: a static payload of 9000 bytes gives three
\* frames with 4096, 4096 and 808 payload bytes.
C3_Witness ==
    /\ pc = "built" /\ kind = "static" /\ Len(arg) = 9000
    /\ Len(payloads) = 3
    /\ Len(ChunkOf(kind, payloads[1])) = 4096
    /\ Len(ChunkOf(kind, payloads[2])) = 4096
    /\ Len(ChunkOf(kind, payloads[3])) = 808
    /\ \A k \in 1..3 : LEValue(SubSeq(payloads[k], 6, 9)) = 9000

\* C4 as stated: an empty payload gives exactly one frame, a header followed
\* by a zero-length chunk.
C4_EmptyPayloadOneFrame ==
    (pc = "built" /\ arg = <<>>) =>
        /\ Len(payloads) = 1
        /\ Len(payloads[1]) = HeaderLen(kind)

\* C4 as amended: an empty payload, static or animated, gives no frame at
\* all (the loop over the chunk offsets does not run).
C4_EmptyPayloadNoFrame ==
    (pc = "built" /\ arg = <<>>) => payloads = <<>>

C4_Witness == pc = "built" /\ arg = <<>> /\ kind = "animated" /\ Len(payloads) = 0

\* C5: the option byte (header byte 4) of a frame is 0 when its chunk
\* starts at payload offset 0, and 2 in every other frame.
C5_ContinuationByte ==
    pc = "built" =>
        \A k \in 1..Len(payloads) :
            payloads[k][5] =
                IF ChunkOffset(kind, payloads, k) = 0 THEN 0 ELSE 2

\* The option bytes 0, 2, 2 of the three frames of a 9000-byte animation.
C5_Witness ==
    /\ pc = "built" /\ kind = "animated" /\ Len(arg) = 9000
    /\ Len(payloads) = 3
    /\ <<payloads[1][5], payloads[2][5], payloads[3][5]>> = <<0, 2, 2>>

\* C6: the CRC field (header bytes 9..12) of every frame of an animated
\* payload is the CRC-32 of the whole payload.
C6_CrcOfWholePayload ==
    (pc = "built" /\ kind = "animated") =>
        \A k \in 1..Len(payloads) :
            SubSeq(payloads[k], 10, 13) = Crc32(arg)

\* The three frames of the 9000-byte animation number 0 all carry its
\* checksum, 0x5D080E95.
C6_Witness ==
    /\ pc = "built" /\ kind = "animated"
    /\ arg = PayloadBytes(9000, 0)
    /\ Len(payloads) = 3
    /\ \A k \in 1..3 : SubSeq(payloads[k], 10, 13) = <<149, 14, 8, 93>>

\* C7: a static frame is the 9 bytes [u16 LE length, 0, 0, option, u32 LE
\* total_size] and its chunk, an animated frame the 16 bytes [u16 LE length,
\* 1, 0, option, u32 LE total_size, u32 LE crc, 5, 0, 13] and its chunk; the
\* length field is the chunk length plus 9 or 16, that is the length of the
\* whole frame, and fits 16 bits; the chunk is at most 4096 bytes.
C7_HeaderLayout ==
    pc = "built" =>
        \A k \in 1..Len(payloads) :
            LET frame == payloads[k]
                h == HeaderLen(kind)
                chunk == Slice(arg, (k - 1) * IMAGE_CHUNK_SIZE, k * IMAGE_CHUNK_SIZE)
            IN  /\ Len(frame) = h + Len(chunk)
                /\ Len(chunk) <= IMAGE_CHUNK_SIZE
                /\ \A i \in 1..Len(frame) : frame[i] \in 0..255
                /\ frame[1] + 256 * frame[2] = Len(chunk) + h
                /\ frame[1] + 256 * frame[2] = Len(frame)
                /\ Len(frame) < 65536
                /\ frame[3] = (IF kind = "static" THEN 0 ELSE 1)
                /\ frame[4] = 0
                /\ frame[5] \in {0, 2}
                /\ LEValue(SubSeq(frame, 6, 9)) = Len(arg)
                /\ kind = "animated" => SubSeq(frame, 14, 16) = <<5, 0, 13>>
                /\ SubSeq(frame, h + 1, Len(frame)) = chunk

\* A full static frame: 4105 = 0x1009 bytes, so the length field is 09 10.
C7_Witness ==
    /\ pc = "built" /\ kind = "static" /\ Len(arg) = 4097
    /\ Len(payloads[1]) = 4105
    /\ SubSeq(payloads[1], 1, 5) = <<9, 16, 0, 0, 0>>
    /\ SubSeq(payloads[2], 1, 9) = <<10, 0, 0, 0, 2, 1, 16, 0, 0>>

\* C8: a notification of at least 5 bytes (so every 5-byte one) whose byte 0
\* is 5 sets chunk_ack and leaves sequence_complete as it was when byte 4 is
\* 0, 1 or 2, and sets both when byte 4 is 3; a notification shorter than 5
\* bytes, or whose byte 0 is not 5, or with another status, changes neither;
\* no notification clears a signal, and the callback has a result for every
\* notification.
C8_NotifySetsAcks ==
    LET d == last_notify
        marked == Len(d) >= 5 /\ d[1] = 5
    IN  /\ (marked /\ d[5] \in {0, 1, 2}) =>
              chunk_ack /\ final_ack = prev_acks[2]
        /\ (marked /\ d[5] = 3) => chunk_ack /\ final_ack
        /\ (~marked \/ d[5] \notin {0, 1, 2, 3}) =>
              <<chunk_ack, final_ack>> = prev_acks
        /\ prev_acks[1] => chunk_ack
        /\ prev_acks[2] => final_ack
        /\ chunk_ack \in BOOLEAN /\ final_ack \in BOOLEAN

\* [5, 0, 0, 0, 3] arrived with both signals clear and set both.
C8_Witness ==
    /\ pc = "acks"
    /\ last_notify = <<5, 0, 0, 0, 3>>
    /\ prev_acks = <<FALSE, FALSE>>
    /\ chunk_ack /\ final_ack

\* C9: a send_image call that got its connection and in which no transport
\* write raised has written every fragment of every frame and returned
\* True, whether the chunk and final acks arrived or every wait timed out.
C9_AckTimeoutsNotFatal ==
    (pc = "idle" /\ op = "send_image" /\ refused # "call" /\ raised = "no") =>
        /\ result = "True"
        /\ payloads # <<>>
        /\ wire = ExpectedWire(payloads, mtu_size)

\* A two-frame image sent whole and answered True although the chunk-ack
\* wait and the final wait both timed out.
C9_Witness ==
    /\ pc = "idle" /\ op = "send_image" /\ result = "True" /\ raised = "no"
    /\ acklog = <<"chunk_timeout", "final_timeout">>
    /\ ~chunk_ack /\ ~final_ack
    /\ Len(payloads) = 2
    /\ wire = ExpectedWire(payloads, mtu_size)

\* C10: once a fragment write has raised in send_image or send_gif, the
\* call is over (so no further fragment is written in it), it returned
\* False, and connected is False.
C10_WriteFailureEndsSend ==
    raised = "frag" =>
        /\ IsSend
        /\ pc = "idle"
        /\ result = "False"
        /\ ~connected

\* A write raised after part of an animation had been written.
C10_Witness ==
    /\ raised = "frag" /\ partial /\ op = "send_gif"
    /\ pc = "idle" /\ result = "False" /\ ~connected

IsCommand == op = "_send_command"

\* C11 as stated: when the write of a command (set_brightness, set_power,
\* clear, set_fullscreen_color, set_diy_mode) has raised, the call returned
\* False and connected is False.
C11_CommandWriteFailureDisconnects ==
    (pc = "idle" /\ IsCommand /\ raised = "cmd") =>
        (result = "False" /\ ~connected)

\* C12 as stated: a send or command call that is over gave its caller True
\* or False, whatever its arguments and whatever the transport did.
C12_NoCallRaises ==
    (pc = "idle" /\ (IsSend \/ IsCommand)) => result \in {"True", "False"}

\* A step in which the connect() in progress raises: at the open (68), at
\* the read of the MTU (75, 77) or at the subscribe (81).
ConnectFailedStep ==
    \/ pc = "connect" /\ pc' \notin {"connect", "start_notify"}
    \/ pc = "start_notify" /\ pc' # "start_notify" /\ ~links'[client].notify

\* C13: when the connect() made by ensure_connected raises, at whatever
\* step, in a send_image, send_gif or command call, nothing had been
\* written in the call, and in the same step the call is over: it returned
\* False (it did not raise), connected is False and nothing was written.
C13_FailedConnectRefusesCall ==
    /\ [](refused = "call" =>
            (pc = "idle" /\ result = "False" /\ cmdlog = <<>> /\ raised = "no"))
    /\ [][((IsSend \/ IsCommand) /\ ConnectFailedStep) =>
            /\ wire = <<>> /\ cmdlog = <<>>
            /\ pc' = "idle"
            /\ result' = "False"
            /\ ~connected'
            /\ refused' = "call"
            /\ wire' = <<>> /\ cmdlog' = <<>>
            /\ raised' = "no"]_vars

\* A send_gif refused because the subscribe raised after the link had been
\* opened.
C13_Witness ==
    /\ pc = "idle" /\ op = "send_gif" /\ refused = "call"
    /\ result = "False" /\ ~connected
    /\ links[client].st = "open" /\ ~links[client].notify

\* A step in which the caller starts a send or a command that does not
\* raise on its arguments.
CallStep ==
    /\ calls' = calls + 1
    /\ op' \in {"send_image", "send_gif", "_send_command"}
    /\ result' # "raised"

\* C14: with connected true and the link of the current handle live,
\* ensure_connected gives True to its caller and changes nothing else (the
\* check is made on the function itself, then on every call that starts in
\* such a state): no handle is made, no connect and no subscribe is
\* awaited, nothing is written before the caller's own first write, and the
\* handle, the write size and the DIY flag are as before; so are the ack
\* signals as long as only ensure_connected has run, which includes the two
\* calls in a row of a first send_image.
C14_EnsureConnectedFastPath ==
    /\ []((pc = "idle" /\ connected /\ IsLive(Cfg)) =>
            LET c == [Cfg EXCEPT !.stack = <<"_send_command">>]
            IN  EnsureConnected(c) = [c EXCEPT !.pc = "cmd_write"])
    /\ [][(CallStep /\ connected /\ IsLive(Cfg)) =>
            /\ connects' = 0
            /\ pc' \in {"cmd_write", "frag_write"}
            /\ links' = links /\ client' = client /\ connected'
            /\ mtu_size' = mtu_size
            /\ diy_mode_active' = diy_mode_active
            /\ wire' = <<>> /\ cmdlog' = <<>>
            /\ pc' = "cmd_write" =>
                  (chunk_ack' = chunk_ack /\ final_ack' = final_ack)]_vars

\* A second call on a live session, suspended at its command write without
\* having connected: the one handle of the first call, its write size and
\* its subscription are as they were.
C14_Witness ==
    /\ calls = 2 /\ IsCommand /\ pc = "cmd_write" /\ connects = 0
    /\ connected /\ client = 1 /\ Len(links) = 1
    /\ links[1].st = "open" /\ links[1].notify
    /\ mtu_size = 512

\* A step in which the link of some handle is lost and its callback runs.
LinkLossStep ==
    \E h \in 1..Len(links) :
        /\ h <= Len(links')
        /\ links[h].st = "open"
        /\ links'[h].st = "lost"

\* C15: the step in which the link-loss callback runs, whatever await the
\* control flow is suspended at (or none), ends with connected false and
\* changes nothing else of the session: no handle is made and no connect is
\* started, the control flow stays where it was, and the handle, the write
\* size, the DIY flag and both ack signals are as before.
C15_LinkLossOnlyClearsFlag ==
    [][LinkLossStep =>
        /\ ~connected'
        /\ Len(links') = Len(links)
        /\ connects' = connects
        /\ pc' = pc /\ stack' = stack
        /\ client' = client
        /\ mtu_size' = mtu_size
        /\ diy_mode_active' = diy_mode_active
        /\ chunk_ack' = chunk_ack /\ final_ack' = final_ack
        /\ wire' = wire /\ cmdlog' = cmdlog /\ result' = result]_vars

\* The callback has run while a send was suspended at a fragment write:
\* the handle, the negotiated size, the DIY flag and a set ack signal are
\* still there.
C15_Witness ==
    /\ pc = "frag_write" /\ op = "send_image"
    /\ ~connected /\ client = 1 /\ links[1].st = "lost"
    /\ mtu_size = 512 /\ diy_mode_active /\ final_ack
    /\ wire # <<>>

\* C16: when the link-loss callback has run while a send was waiting for
\* the chunk_ack of a non-final frame, the send is still waiting after it;
\* a wait that no ack has answered ends by its timeout and in no other way;
\* connected is false from the callback on, through the rest of the send
\* and after it has returned; and the send returns either True with every
\* fragment written or False because a fragment write raised.
C16_LinkLossDuringChunkWait ==
    /\ [](lost_in_wait => (IsSend /\ ~connected))
    /\ []((lost_in_wait /\ pc = "idle") =>
            \/ result = "True" /\ wire = ExpectedWire(payloads, mtu_size)
            \/ result = "False" /\ raised = "frag")
    /\ [][(LinkLossStep /\ pc = "wait_chunk") =>
            (pc' = "wait_chunk" /\ lost_in_wait')]_vars
    /\ [][(pc = "wait_chunk" /\ pc' # "wait_chunk" /\ ~chunk_ack) =>
            (pc' = "backoff" /\ acklog' = Append(acklog, "chunk_timeout"))]_vars

\* The link of the current handle was lost during the wait, the wait timed
\* out, and the first write of the next frame raised: False, not connected.
C16_Witness ==
    /\ lost_in_wait /\ pc = "idle" /\ op = "send_gif"
    /\ links[client].st = "lost"
    /\ acklog = <<"chunk_timeout">>
    /\ result = "False" /\ raised = "frag" /\ partial
    /\ ~connected

\* The handles made by the session whose link is open.
OpenHandles == {h \in 1..Len(links) : links[h].st = "open"}

\* C17 as stated: at most one handle made by the session has an open link.
C17_OneOpenHandle == Cardinality(OpenHandles) <= 1

\* C18: a send_image, send_gif or command call makes at most one connect()
\* attempt, whatever callbacks run during the call; a call refused by
\* ensure_connected made exactly one, and is over.
C18_OneConnectPerCall ==
    /\ (IsSend \/ IsCommand) => connects <= 1
    /\ refused # "no" => (connects = 1 /\ pc = "idle")
    /\ pc \in {"connect", "start_notify"} => connects = 1

\* A first send_image that connected once, wrote its mode-enable command,
\* lost its link to a callback and ended on a raising write.
C18_Witness ==
    /\ pc = "idle" /\ op = "send_image" /\ connects = 1
    /\ cmdlog = <<DiyCommand(TRUE)>>
    /\ links[client].st = "lost" /\ ~connected
    /\ result = "False" /\ raised = "frag"

\* C19 as stated: the negotiated size is max(20, R) whenever the transport
\* reports a size R for the write characteristic, and the estimate from the
\* MTU (MTU - 3, at least 20) only when it reports none.
C19_ReportedSizePreferred ==
    pc = "negotiated" =>
        mtu_size = IF char_report.kind = "size"
                   THEN Max(20, char_report.size)
                   ELSE Max(20, mtu_report - 3)

\* C19 as amended: the negotiated size is R when the transport reports a
\* size R above 20 for the write characteristic; when it reports a size of
\* 20 or less, no characteristic, or the lookup raises, it is MTU - 3, and
\* 20 if that is less than 20.
C19_ReportedSizeAbove20Preferred ==
    pc = "negotiated" =>
        mtu_size = IF char_report.kind = "size" /\ char_report.size > 20
                   THEN char_report.size
                   ELSE Max(20, mtu_report - 3)

\* A reported size of 244 is taken although the MTU would allow 512.
C19_Witness ==
    /\ pc = "negotiated"
    /\ char_report = [kind |-> "size", size |-> 244]
    /\ mtu_report = 515
    /\ mtu_size = 244

\* C20: the write size of the session is at least 20 in every state, and
\* it is exactly 20 as long as no connect() of the session has got as far
\* as its negotiation (every handle made so far is still unopened).
C20_WriteSizeAtLeast20 ==
    /\ mtu_size >= 20
    /\ (\A h \in 1..Len(links) : links[h].st = "new") => mtu_size = DEFAULT_MTU

\* After a connect that negotiated 512, a link loss and a connect that
\* failed before its negotiation, the size is still the one negotiated.
C20_Witness ==
    /\ pc = "idle" /\ Len(links) = 2
    /\ links[1].st = "lost" /\ links[2].st = "new"
    /\ ~connected /\ mtu_size = 512

\* C21 as stated: the DIY flag becomes true only in a send_image call in
\* which the mode-enable command has been written; after a failed write of
\* the enable command it is still false.
C21_FlagOnlyAfterEnableWritten ==
    [][(~diy_mode_active /\ diy_mode_active') =>
          (op = "send_image" /\ cmdlog = <<DiyCommand(TRUE)>> /\ raised = "no")]_vars

\* C22: no step of the session turns the DIY flag from true to false,
\* whatever it is (a send, a command, a link-loss callback, a failed
\* connect, a reconnect, a disconnect); send_image issues no mode-enable
\* command while the flag is true, and issues at most one in the life of
\* the session.
C22_FlagStaysTrue ==
    /\ [][diy_mode_active => diy_mode_active']_vars
    /\ [][diy_mode_active => enables' = enables]_vars
    /\ [](enables <= 1)
    /\ [](diy_mode_active => enables = 1)

\* A second send_image, after a reconnect on a new handle, is at its first
\* fragment write without having written any command: the flag set by the
\* first one is still true.
C22_Witness ==
    /\ calls = 2 /\ op = "send_image" /\ pc = "frag_write"
    /\ client = 2 /\ connects = 1
    /\ diy_mode_active /\ enables = 1
    /\ cmdlog = <<>> /\ wire = <<>>

\* C23 as stated: image fragments are on the wire only in a session in
\* which the mode-enable command [5, 0, 4, 1, 1] has been written before.
C23_FragmentsOnlyAfterEnable ==
    wire # <<>> => diy_written

\* The waits on the final ack that the call has finished, by outcome.
FinalWaits ==
    SelectSeq(acklog, LAMBDA w : w \in {"final_ack", "final_timeout"})

\* C24 as stated: an image transmission, static or animated, that has
\* written all its fragments has waited exactly once on the final ack.
C24_OneFinalWaitPerSend ==
    (IsSend /\ pc = "idle" /\ result = "True") => Len(FinalWaits) = 1

\* min(100, max(0, level)), as the claim writes the clamp.
ClampedLevel == Min(100, Max(0, brightness))

\* C25: for every level given to set_brightness on a connected session, the
\* only buffer the call can write is [5, 0, 4, 0x80, L] with
\* L = min(100, max(0, level)): it is the buffer being written while the
\* write is awaited, it is what has been written, once, when the call
\* returned True, and nothing was written when it returned False; the level
\* byte on the wire is always within 0..100.
C25_BrightnessClamped ==
    /\ pc = "cmd_write" => cmd = <<5, 0, 4, 128, ClampedLevel>>
    /\ cmdlog \in {<<>>, << <<5, 0, 4, 128, ClampedLevel>> >>}
    /\ (pc = "idle" /\ result = "True") => cmdlog # <<>>
    /\ (pc = "idle" /\ result = "False") => cmdlog = <<>>
    /\ \A k \in 1..Len(cmdlog) : cmdlog[k][5] \in 0..100
    /\ wire = <<>>
    /\ result # "raised"

\* set_brightness(150) has written the command with level 100.
C25_Witness ==
    /\ brightness = 150
    /\ pc = "idle" /\ result = "True"
    /\ cmdlog = << <<5, 0, 4, 128, 100>> >>

\* A buffer of the command layout: at most 20 bytes, the first two being
\* its own length in little-endian.
IsCommandBuffer(b) ==
    /\ Len(b) >= 3 /\ Len(b) <= DEFAULT_MTU
    /\ b[1] + 256 * b[2] = Len(b)

\* C26: a command call makes its one write with response requested and
\* the whole buffer in it: nothing goes out as a fragment, the write adds
\* exactly the buffer held, and a call that found the session connected
\* ends with that one write made (True) or raised (False). Every buffer
\* written or about to be, the enable of send_image included, has the
\* command layout. The steps of a command leave both ack signals as they
\* are, and a command is never suspended at an ack wait.
C26_CommandIsOneWholeWrite ==
    /\ [](IsCommand => (wire = <<>> /\ acklog = <<>> /\ Len(cmdlog) <= 1))
    /\ [](IsCommand => pc \notin {"frag_write", "wait_chunk", "backoff", "wait_final"})
    /\ []((IsCommand /\ pc = "idle" /\ result # "raised"
             /\ connects = 0 /\ refused = "no") =>
            \/ raised = "no" /\ result = "True" /\ Len(cmdlog) = 1
            \/ raised = "cmd" /\ result = "False" /\ cmdlog = <<>>)
    /\ [](pc = "cmd_write" => IsCommandBuffer(cmd))
    /\ [](\A k \in 1..Len(cmdlog) : IsCommandBuffer(cmdlog[k]))
    /\ [][(cmdlog' # cmdlog /\ cmdlog' # <<>>) =>
            (pc = "cmd_write" /\ cmdlog' = Append(cmdlog, cmd))]_vars
    /\ [][((op' = "_send_command" \/ pc = "cmd_write")
              /\ (pc' # pc \/ calls' # calls)) =>
            (chunk_ack' = chunk_ack /\ final_ack' = final_ack)]_vars

\* set_fullscreen_color(255, 128, 1), called on a connected session whose
\* chunk ack was set, has made its one write of seven bytes and left the
\* ack set.
C26_Witness ==
    /\ IsCommand /\ pc = "idle" /\ result = "True"
    /\ calls = 2 /\ connects = 0
    /\ cmdlog = << <<7, 0, 2, 2, 255, 128, 1>> >>
    /\ wire = <<>>
    /\ chunk_ack

\* The waits on chunk_ack that the call has finished, by outcome.
ChunkWaits ==
    SelectSeq(acklog, LAMBDA w : w \in {"chunk_ack", "chunk_timeout"})

\* C27: chunk_ack is false after every step that starts a frame, and no
\* step of the send clears it while the frame's fragments are written or
\* during the wait; the send waits on it only with every fragment of frames
\* 1..idx+1 written and a further frame to come, so that a send of N frames
\* that returned True has finished N - 1 waits; and a wait that ends while
\* chunk_ack is set ends as acknowledged, whenever the notification came.
C27_ChunkAckPerFrame ==
    /\ [][(pc # "frag_write" /\ pc' = "frag_write") =>
            (pos' = 0 /\ ~chunk_ack')]_vars
    /\ [][(pc \in {"frag_write", "wait_chunk"} /\ chunk_ack
              /\ pc' \in {"frag_write", "wait_chunk"} /\ idx' = idx) =>
            chunk_ack']_vars
    /\ [](pc \in {"wait_chunk", "backoff"} =>
            /\ Len(payloads) > 1
            /\ idx < Len(payloads) - 1
            /\ pos = Len(payloads[idx + 1])
            /\ wire = ExpectedWire(SubSeq(payloads, 1, idx + 1), mtu_size))
    /\ [](pc \in {"frag_write", "wait_chunk"} => Len(ChunkWaits) = idx)
    /\ []((IsSend /\ pc = "idle" /\ result = "True") =>
            Len(ChunkWaits) = Len(payloads) - 1)
    /\ [][(pc = "wait_chunk" /\ chunk_ack /\ pc' # pc) =>
            acklog' = Append(acklog, "chunk_ack")]_vars

\* The wait after the first frame ended as acknowledged, chunk_ack was
\* cleared for the second frame, and a notification has set it again before
\* that frame's first fragment is written.
C27_Witness ==
    /\ IsSend /\ pc = "frag_write"
    /\ Len(payloads) = 2 /\ idx = 1 /\ pos = 0
    /\ acklog = <<"chunk_ack">>
    /\ chunk_ack

\* C28: a send_image, send_gif or command call that is suspended at an
\* await eventually is over and has given its caller True or False, with no
\* assumption on notifications.
C28_CallsReturn ==
    (pc # "idle" /\ (IsSend \/ IsCommand)) ~>
        (pc = "idle" /\ result \in {"True", "False"})

\* A two-frame animation sent whole and answered True on a session where no
\* notification was delivered: the chunk-ack wait timed out.
C28_Witness ==
    /\ pc = "idle" /\ op = "send_gif" /\ result = "True"
    /\ Len(payloads) = 2
    /\ acklog = <<"chunk_timeout">>
    /\ ~chunk_ack /\ ~final_ack

\* C29 as stated: when disconnect() has returned, connected is false and
\* the link of the handle the session holds is not open.
C29_DisconnectReleasesLink ==
    (pc = "idle" /\ op = "disconnect" /\ result = "None") =>
        (~connected /\ ~IsLive(Cfg))

\* C30 as stated: a link-loss callback for a handle that a later successful
\* connect() has replaced leaves connected as it is: while the session is
\* connected on its current handle, the loss of another handle's link does
\* not end with connected false.
C30_StaleLossKeepsConnected ==
    [][(/\ connected /\ IsLive(Cfg)
        /\ \E h \in 1..Len(links) :
              /\ h # client
              /\ links[h].st = "open"
              /\ links'[h].st = "lost")
          => connected']_vars

=============================================================================
